---- MODULE Spec2Model ----
(***************************************************************************)
(* mkqcb (src/main.rs): create a build directory with one subdirectory per *)
(* (compiler, build type, sanitizer) configuration and run cmake in each.  *)
(*                                                                         *)
(* One run of the program is modelled from process start to process exit.  *)
(* The inputs of a run are the command line (argv, without the program     *)
(* name), the directories that exist beforehand, and the state of the      *)
(* project's CMakeLists.txt.  The environment decides, when the program    *)
(* asks, whether a directory can be created, whether cmake can be started  *)
(* and with which status cmake exits.  Changing and reading the working    *)
(* directory is taken to succeed.                                          *)
(***************************************************************************)
EXTENDS Integers, Sequences, FiniteSets, TLC

VARIABLES
    argv,          \* std::env::args() after the program name
    dirs,          \* the directories that exist (absolute paths)
    cmakelists,    \* state of <StartDir>/proj/CMakeLists.txt
    cwd,           \* the process's current working directory
    pc,            \* position of the run
    matches,       \* getopts result: flags and free arguments
    proj_dir,      \* run(): proj_dir
    has_sanitize,  \* run(): props.has_sanitize
    configs,       \* run(): configs
    build_system,  \* run(): build_system
    idx,           \* number of configs the for loop has taken
    parent_dir,    \* create_config(): parent_dir
    ret,           \* value returned by run(): (retv, opt_msg)
    exit_code,     \* <<>> while running, <<code>> once the process ended
    stdout,        \* what was printed to standard output, in order
    stderr,        \* what was printed to standard error, in order
    created,       \* directories created by this run, in order
    fs_log,        \* every filesystem call of this run, in order
    invoked        \* every attempt to run cmake, in order

vars == <<argv, dirs, cmakelists, cwd, pc, matches, proj_dir, has_sanitize,
          configs, build_system, idx, parent_dir, ret, exit_code, stdout,
          stderr, created, fs_log, invoked>>

----------------------------------------------------------------------------
(* Bounds and input alphabets *)

MaxArgs == 3

Tokens == {"--no-sanitize", "--no-ninja", "--help", "-h", "--bogus",
           "proj", "other"}

StartDir == "/start"

RECURSIVE SeqsUpTo(_, _)
SeqsUpTo(S, n) ==
    IF n = 0 THEN {<<>>}
    ELSE LET shorter == SeqsUpTo(S, n - 1)
         IN  shorter \cup {Append(s, t) : s \in shorter, t \in S}

Marker == <<"$", "{", "S", "A", "N", "I", "T", "I", "Z", "E", "}">>

Texts == { <<>>,
           Marker,
           <<"x", "\n">> \o Marker \o <<"y">>,
           <<"$", "{", "S", "A", "N", "I", "T", "I", "Z", "}">>,
           <<"$", "{", "S", "A", "N", "I", "T", "I", "Z", "E">> }

FileStates == {[kind |-> "absent", text |-> <<>>],
               [kind |-> "unreadable", text |-> <<>>]}
              \cup {[kind |-> "text", text |-> t] : t \in Texts}

----------------------------------------------------------------------------
(* Paths *)

Join(base, rel) == base \o "/" \o rel

----------------------------------------------------------------------------
(* Enumerations and their cmake arguments *)

BuildSystem_as_cmake_arg(bs) ==
    CASE bs = "Make"  -> "-GCodeBlocks - Unix Makefiles"
      [] bs = "Ninja" -> "-GCodeBlocks - Ninja"

Compiler_fmt(comp) ==
    CASE comp = "Gcc"   -> "GCC"
      [] comp = "Clang" -> "Clang"

Compiler_as_cmake_args(comp) ==
    CASE comp = "Gcc"   -> <<"-DCMAKE_C_COMPILER=gcc", "-DCMAKE_CXX_COMPILER=g++">>
      [] comp = "Clang" -> <<"-DCMAKE_C_COMPILER=clang", "-DCMAKE_CXX_COMPILER=clang++">>

BuildType_as_cmake_arg(bt) ==
    CASE bt = "Debug"   -> "-DCMAKE_BUILD_TYPE=Debug"
      [] bt = "Release" -> "-DCMAKE_BUILD_TYPE=Release"

\* variant: the suffix comes first in the name
config_suffix_first(name, comp, build_type, args) ==
    [name       |-> name \o "-" \o Compiler_fmt(comp),
     compiler   |-> comp,
     build_type |-> build_type,
     cmake_args |-> args]

config(name, comp, build_type, args) ==
    [name       |-> Compiler_fmt(comp) \o "-" \o name,
     compiler   |-> comp,
     build_type |-> build_type,
     cmake_args |-> args]

base_configs ==
    << config("Debug", "Gcc", "Debug", <<>>),
       config("Release", "Gcc", "Release", <<>>),
       config("Debug", "Clang", "Debug", <<>>),
       config("Release", "Clang", "Release", <<>>) >>

sanitize_configs ==
    << config("Asan", "Clang", "Debug", <<"-DSANITIZE=address">>),
       config("Ubsan", "Clang", "Debug", <<"-DSANITIZE=undefined">>),
       config("Tsan", "Clang", "Debug", <<"-DSANITIZE=thread">>) >>

\* variant: the --no-sanitize flag is not consulted
enumerate_configs_ignoring_flag(sanitize, no_sanitize) ==
    IF sanitize
    THEN base_configs \o sanitize_configs
    ELSE base_configs

enumerate_configs(sanitize, no_sanitize) ==
    IF sanitize /\ ~no_sanitize
    THEN base_configs \o sanitize_configs
    ELSE base_configs

select_build_system(no_ninja) == IF no_ninja THEN "Make" ELSE "Ninja"

\* variant: the build-system selector is passed after the compiler flags
cmake_command_selector_late(conf, bs, project_dir) ==
    <<project_dir>>
    \o Compiler_as_cmake_args(conf.compiler)
    \o <<BuildSystem_as_cmake_arg(bs), BuildType_as_cmake_arg(conf.build_type)>>
    \o conf.cmake_args

cmake_command(conf, bs, project_dir) ==
    <<project_dir, BuildSystem_as_cmake_arg(bs)>>
    \o Compiler_as_cmake_args(conf.compiler)
    \o <<BuildType_as_cmake_arg(conf.build_type)>>
    \o conf.cmake_args

----------------------------------------------------------------------------
(* parse_cmakelists_txt: s.find("${SANITIZE}") *)

find(s, pat) ==
    \E i \in 1..(Len(s) - Len(pat) + 1) : SubSeq(s, i, i + Len(pat) - 1) = pat

----------------------------------------------------------------------------
(* Option parsing: opts.parse(args) with the three optflags of run() *)

IsOptLike(tok) == tok \in {"--no-sanitize", "--no-ninja", "--help", "-h", "--bogus"}

OptName(tok) ==
    CASE tok = "--no-sanitize"     -> "no-sanitize"
      [] tok = "--no-ninja"        -> "no-ninja"
      [] tok \in {"--help", "-h"}  -> "help"
      [] OTHER                     -> "?"

Declared == <<"no-sanitize", "no-ninja", "help">>

Occurrences(args, name) ==
    Cardinality({i \in DOMAIN args : IsOptLike(args[i]) /\ OptName(args[i]) = name})

Unknown(args) == {i \in DOMAIN args : IsOptLike(args[i]) /\ OptName(args[i]) = "?"}

Min(S) == CHOOSE m \in S : \A n \in S : m <= n

opts_parse(args) ==
    IF Unknown(args) # {}
    THEN [ok |-> FALSE, err |-> <<"Unrecognized option", args[Min(Unknown(args))]>>]
    ELSE IF \E k \in DOMAIN Declared : Occurrences(args, Declared[k]) > 1
    THEN [ok |-> FALSE,
          err |-> <<"Option given more than once",
                    Declared[Min({k \in DOMAIN Declared :
                                    Occurrences(args, Declared[k]) > 1})]>>]
    ELSE [ok |-> TRUE,
          m  |-> [help        |-> Occurrences(args, "help") > 0,
                  no_sanitize |-> Occurrences(args, "no-sanitize") > 0,
                  no_ninja    |-> Occurrences(args, "no-ninja") > 0,
                  free        |-> SelectSeq(args, LAMBDA t : ~IsOptLike(t))]]

----------------------------------------------------------------------------
(* Outputs *)

Usage == <<"usage">>
Progress(name) == <<"Creating configuration for", name>>

None == <<>>
Some(m) == <<m>>

NoMatches == [help |-> FALSE, no_sanitize |-> FALSE, no_ninja |-> FALSE, free |-> <<>>]
NoRet == [retv |-> 0, msg |-> None]

\* exit status of a Rust process ended by a panic (a failed unwrap)
PanicExitCode == 101

----------------------------------------------------------------------------
Init ==
    /\ argv \in SeqsUpTo(Tokens, MaxArgs)
    /\ \E pre \in SUBSET {Join(StartDir, "proj"), Join(StartDir, "build-proj")} :
          dirs = {StartDir} \cup pre
    /\ cmakelists \in FileStates
    /\ (Join(StartDir, "proj") \notin dirs => cmakelists.kind = "absent")
    /\ cwd = StartDir
    /\ pc = "ParsingArgs"
    /\ matches = NoMatches
    /\ proj_dir = ""
    /\ has_sanitize = FALSE
    /\ configs = <<>>
    /\ build_system = "Ninja"
    /\ idx = 0
    /\ parent_dir = ""
    /\ ret = NoRet
    /\ exit_code = <<>>
    /\ stdout = <<>>
    /\ stderr = <<>>
    /\ created = <<>>
    /\ fs_log = <<>>
    /\ invoked = <<>>


----------------------------------------------------------------------------
(* Values returned by run() *)

\* variant: showing the usage counts as success
usage_return_zero == [retv |-> 0, msg |-> None]

usage_return == [retv |-> 1, msg |-> None]

\* variant: a parse error is reported without its message
parse_error_return_silent(e) == [retv |-> 1, msg |-> None]

parse_error_return(e) == [retv |-> 1, msg |-> Some(e)]

lookup_error_return(dir) ==
    [retv |-> 1, msg |-> Some(<<"Error while trying to look up directory", dir>>)]

\* variant: an unreadable build script is not reported as a failure
cmakelists_error_return_zero(dir) ==
    [retv |-> 0, msg |-> Some(<<"Failed to open CMakeLists.txt in", dir>>)]

cmakelists_error_return(dir) ==
    [retv |-> 1, msg |-> Some(<<"Failed to open CMakeLists.txt in", dir>>)]

build_dir_exists_return(build_dir) ==
    [retv |-> 1,
     msg  |-> Some(<<"The build directory already exists. Delete it first.", build_dir>>)]

done_return == [retv |-> 0, msg |-> None]

(* Filesystem primitives *)

\* std::fs::metadata(&proj_dir) is Ok
metadata_ok(path, existing) == path \in existing

\* variant: the result of reading the build script is not checked
read_ok_unchecked(file) == TRUE

\* File::open and read_to_string both succeed
read_ok(file) == file.kind = "text"

\* variant: the existence check is skipped
path_exists_never(path, existing) == FALSE

\* build_dir.exists()
path_exists(path, existing) == path \in existing

\* fs::create_dir fails when the path exists or the environment refuses
create_dir_ok(path, existing, env_ok) == env_ok /\ path \notin existing

build_dir_name(arg) == "build-" \o arg

first_free(m) == m.free[1]

\* variant: no break
loop_continues_always(success) == TRUE

\* the for loop goes on to the next config unless create_config returned false
loop_continues(success) == success

\* result.success()
status_success(status) == status = 0

\* variant: the working directory is left where cmake ran
restored_dir_stays(saved, current) == current

\* env::set_current_dir(&parent_dir) at the end of create_config
restored_dir(saved, current) == saved

ExitStatuses == {0, 1}

----------------------------------------------------------------------------
(* run(), lines 126-150: parse the command line *)
ParseArgs ==
    /\ pc = "ParsingArgs"
    /\ LET r == opts_parse(argv) IN
         IF ~r.ok
         THEN /\ ret' = parse_error_return(r.err)
              /\ pc' = "Returned"
              /\ UNCHANGED <<matches, stdout>>
         ELSE IF r.m.help \/ r.m.free = <<>>
         THEN /\ stdout' = Append(stdout, Usage)
              /\ ret' = usage_return
              /\ pc' = "Returned"
              /\ matches' = r.m
         ELSE /\ matches' = r.m
              /\ pc' = "Inspecting"
              /\ UNCHANGED <<ret, stdout>>
    /\ UNCHANGED <<argv, dirs, cmakelists, cwd, proj_dir, has_sanitize, configs,
                   build_system, idx, parent_dir, exit_code, stderr, created,
                   fs_log, invoked>>

(* run(), lines 151-177, and parse_cmakelists_txt: look the project up *)
Inspect ==
    /\ pc = "Inspecting"
    /\ LET dir  == Join(cwd, first_free(matches))
           file == IF dir = Join(StartDir, "proj")
                   THEN cmakelists
                   ELSE [kind |-> "absent", text |-> <<>>]
           path == Join(dir, "CMakeLists.txt")
       IN
         /\ proj_dir' = dir
         /\ IF ~metadata_ok(dir, dirs)
            THEN /\ fs_log' = fs_log \o << <<"current_dir", cwd, "ok">>,
                                           <<"metadata", dir, "err">> >>
                 /\ ret' = lookup_error_return(dir)
                 /\ pc' = "Returned"
                 /\ UNCHANGED has_sanitize
            ELSE IF ~read_ok(file)
            THEN /\ fs_log' = fs_log \o << <<"current_dir", cwd, "ok">>,
                                           <<"metadata", dir, "ok">>,
                                           <<"read", path, "err">> >>
                 /\ ret' = cmakelists_error_return(dir)
                 /\ pc' = "Returned"
                 /\ UNCHANGED has_sanitize
            ELSE /\ fs_log' = fs_log \o << <<"current_dir", cwd, "ok">>,
                                           <<"metadata", dir, "ok">>,
                                           <<"read", path, "ok">> >>
                 /\ has_sanitize' = find(file.text, Marker)
                 /\ pc' = "CreatingBuildDir"
                 /\ UNCHANGED ret
    /\ UNCHANGED <<argv, dirs, cmakelists, cwd, matches, configs, build_system,
                   idx, parent_dir, exit_code, stdout, stderr, created, invoked>>

(* run(), lines 178-211: refuse an existing build directory, else create  *)
(* and enter it, enumerate the configurations, choose the build system    *)
CreateBuildDir ==
    /\ pc = "CreatingBuildDir"
    /\ LET build_dir == build_dir_name(first_free(matches))
           path      == Join(cwd, build_dir)
       IN
         IF path_exists(path, dirs)
         THEN /\ fs_log' = Append(fs_log, <<"exists", path, "true">>)
              /\ ret' = build_dir_exists_return(build_dir)
              /\ pc' = "Returned"
              /\ UNCHANGED <<dirs, cwd, configs, build_system, exit_code, stderr,
                             created>>
         ELSE \E env_ok \in BOOLEAN :
              IF ~create_dir_ok(path, dirs, env_ok)
              THEN /\ fs_log' = fs_log \o << <<"exists", path, "false">>,
                                             <<"create_dir", path, "err">> >>
                   /\ stderr' = Append(stderr, <<"panicked at create_dir", path>>)
                   /\ exit_code' = <<PanicExitCode>>
                   /\ pc' = "Panicked"
                   /\ UNCHANGED <<dirs, cwd, configs, build_system, ret, created>>
              ELSE /\ fs_log' = fs_log \o << <<"exists", path, "false">>,
                                             <<"create_dir", path, "ok">>,
                                             <<"set_current_dir", path, "ok">> >>
                   /\ dirs' = dirs \cup {path}
                   /\ created' = Append(created, path)
                   /\ cwd' = path
                   /\ configs' = enumerate_configs(has_sanitize, matches.no_sanitize)
                   /\ build_system' = select_build_system(matches.no_ninja)
                   /\ pc' = "RunningConfigs"
                   /\ UNCHANGED <<ret, exit_code, stderr>>
    /\ UNCHANGED <<argv, cmakelists, matches, proj_dir, has_sanitize, idx,
                   parent_dir, stdout, invoked>>

(* run(), lines 212-220, and create_config, lines 86-95: print the        *)
(* progress line, create and enter the subdirectory, start cmake          *)
ConfigEnter ==
    /\ pc = "RunningConfigs"
    /\ idx < Len(configs)
    /\ LET c    == configs[idx + 1]
           path == Join(cwd, c.name)
           call == [name |-> c.name,
                    args |-> cmake_command(c, build_system, proj_dir),
                    cwd  |-> path]
       IN
         /\ idx' = idx + 1
         /\ stdout' = Append(stdout, Progress(c.name))
         /\ parent_dir' = cwd
         /\ \E env_ok \in BOOLEAN :
              IF ~create_dir_ok(path, dirs, env_ok)
              THEN /\ fs_log' = fs_log \o << <<"current_dir", cwd, "ok">>,
                                             <<"create_dir", path, "err">> >>
                   /\ stderr' = Append(stderr, <<"panicked at create_dir", path>>)
                   /\ exit_code' = <<PanicExitCode>>
                   /\ pc' = "Panicked"
                   /\ UNCHANGED <<dirs, cwd, created, invoked>>
              ELSE /\ fs_log' = fs_log \o << <<"current_dir", cwd, "ok">>,
                                             <<"create_dir", path, "ok">>,
                                             <<"set_current_dir", path, "ok">> >>
                   /\ dirs' = dirs \cup {path}
                   /\ created' = Append(created, path)
                   /\ cwd' = path
                   /\ \E started \in BOOLEAN :
                        /\ invoked' = Append(invoked,
                                 call @@ [started |-> started, status |-> <<>>])
                        /\ IF started
                           THEN /\ pc' = "InGenerator"
                                /\ UNCHANGED <<exit_code, stderr>>
                           ELSE /\ stderr' = Append(stderr, <<"panicked at cmake", c.name>>)
                                /\ exit_code' = <<PanicExitCode>>
                                /\ pc' = "Panicked"
    /\ UNCHANGED <<argv, cmakelists, matches, proj_dir, has_sanitize, configs,
                   build_system, ret>>

(* create_config, lines 95-98, and run(), lines 220-225: cmake exits, the *)
(* working directory is restored, the loop goes on or run() returns       *)
ConfigReturn ==
    /\ pc = "InGenerator"
    /\ \E status \in ExitStatuses :
         /\ invoked' = [invoked EXCEPT ![Len(invoked)].status = <<status>>]
         /\ cwd' = restored_dir(parent_dir, cwd)
         /\ fs_log' = Append(fs_log, <<"set_current_dir", restored_dir(parent_dir, cwd), "ok">>)
         /\ IF loop_continues(status_success(status)) /\ idx < Len(configs)
            THEN /\ pc' = "RunningConfigs"
                 /\ UNCHANGED ret
            ELSE /\ pc' = "Returned"
                 /\ ret' = done_return
    /\ UNCHANGED <<argv, dirs, cmakelists, matches, proj_dir, has_sanitize,
                   configs, build_system, idx, parent_dir, exit_code, stdout,
                   stderr, created>>

(* main, lines 228-233: print the message, exit with the code *)
Main ==
    /\ pc = "Returned"
    /\ stderr' = stderr \o ret.msg
    /\ exit_code' = <<ret.retv>>
    /\ pc' = "Exited"
    /\ UNCHANGED <<argv, dirs, cmakelists, cwd, matches, proj_dir, has_sanitize,
                   configs, build_system, idx, parent_dir, ret, stdout, created,
                   fs_log, invoked>>

Next ==
    \/ ParseArgs
    \/ Inspect
    \/ CreateBuildDir
    \/ ConfigEnter
    \/ ConfigReturn
    \/ Main

Spec == Init /\ [][Next]_vars

----------------------------------------------------------------------------
(* Vocabulary of the properties, stated on the inputs and the observable   *)
(* outputs of a run                                                        *)

Range(seq) == {seq[i] : i \in DOMAIN seq}

Given(tok) == \E i \in DOMAIN argv : argv[i] = tok

TimesGiven(toks) == Cardinality({i \in DOMAIN argv : argv[i] \in toks})

Positionals == SelectSeq(argv, LAMBDA t : t \in {"proj", "other"})

HelpGiven == Given("--help") \/ Given("-h")

\* only the supported flags, each at most once
SupportedCommandLine ==
    /\ ~Given("--bogus")
    /\ TimesGiven({"--no-sanitize"}) <= 1
    /\ TimesGiven({"--no-ninja"}) <= 1
    /\ TimesGiven({"--help", "-h"}) <= 1

Finished == pc \in {"Exited", "Panicked"}

BuildRoot == "/start/build-proj"

MarkerInScript ==
    /\ cmakelists.kind = "text"
    /\ cmakelists.text \in {Marker, <<"x", "\n">> \o Marker \o <<"y">>}

BaseNames == <<"GCC-Debug", "GCC-Release", "Clang-Debug", "Clang-Release">>

AllNames == BaseNames \o <<"Clang-Asan", "Clang-Ubsan", "Clang-Tsan">>

ExpectedNames ==
    IF MarkerInScript /\ ~Given("--no-sanitize") THEN AllNames ELSE BaseNames

Names(cs) == [i \in DOMAIN cs |-> cs[i].name]

----------------------------------------------------------------------------
\* C1: whenever the configurations have been enumerated, their names are
\* GCC-Debug, GCC-Release, Clang-Debug, Clang-Release, followed by
\* Clang-Asan, Clang-Ubsan, Clang-Tsan exactly when the build script holds
\* ${SANITIZE} and --no-sanitize was not given; --no-ninja plays no part.
C1_Enumeration ==
    (pc \in {"RunningConfigs", "InGenerator"} \/ invoked # <<>>)
        => Names(configs) = ExpectedNames

C1_Witness ==
    /\ pc = "RunningConfigs"
    /\ Given("--no-ninja")
    /\ Len(configs) = 7

----------------------------------------------------------------------------
\* C2: once a generator has exited non-zero, it is the last one invoked,
\* run() has returned (0, None) with the working directory back at the
\* build-directory root, and the process exits with code 0.
C2_StopAtFirstFailure ==
    \A k \in DOMAIN invoked :
        (invoked[k].status # <<>> /\ invoked[k].status[1] # 0)
            => /\ k = Len(invoked)
               /\ \A j \in 1..(k - 1) : invoked[j].status = <<0>>
               /\ pc \in {"Returned", "Exited"}
               /\ cwd = BuildRoot
               /\ ret = [retv |-> 0, msg |-> <<>>]
               /\ (pc = "Exited" => exit_code = <<0>> /\ stderr = <<>>)

C2_Witness ==
    /\ pc = "Exited"
    /\ Len(configs) = 7
    /\ Len(invoked) = 3
    /\ invoked[3].status = <<1>>

----------------------------------------------------------------------------
\* The build directory named by the first positional argument existed
\* before the run started.
TargetPreexists ==
    /\ Positionals # <<>>
    /\ LET target == "/start/build-" \o Positionals[1]
       IN  target \in dirs /\ target \notin Range(created)

InspectionSucceeds ==
    /\ Positionals # <<>>
    /\ ("/start/" \o Positionals[1]) \in dirs
    /\ cmakelists.kind = "text"

NothingMutated ==
    /\ created = <<>>
    /\ cwd = StartDir
    /\ \A i \in DOMAIN fs_log : fs_log[i][1] \notin {"create_dir", "set_current_dir"}

\* C3 as stated (for a command line that parses and does not ask for
\* help): whenever build-<arg> exists beforehand, the finished run has
\* mutated nothing and exited 1 with the message naming that directory.
C3_AsStated ==
    (Finished /\ TargetPreexists /\ SupportedCommandLine /\ ~HelpGiven)
        => /\ NothingMutated
           /\ exit_code = <<1>>
           /\ stderr = << <<"The build directory already exists. Delete it first.",
                            "build-" \o Positionals[1]>> >>

\* C3 amended: when build-<arg> exists beforehand the run never creates a
\* directory nor changes the working directory and exits 1; the message
\* names that directory whenever the command line parsed, help was not
\* asked for and the project was inspected successfully.
C3_ExistingBuildDir ==
    TargetPreexists
        => /\ NothingMutated
           /\ pc # "Panicked"
           /\ (pc = "Exited"
                 => /\ exit_code = <<1>>
                    /\ (SupportedCommandLine /\ ~HelpGiven /\ InspectionSucceeds)
                         => stderr = << <<"The build directory already exists. Delete it first.",
                                          "build-" \o Positionals[1]>> >>)

C3_Witness ==
    /\ pc = "Exited"
    /\ TargetPreexists
    /\ stderr = << <<"The build directory already exists. Delete it first.", "build-proj">> >>
    /\ fs_log[Len(fs_log)] = <<"exists", "/start/build-proj", "true">>

----------------------------------------------------------------------------
\* C4: with only supported flags, a run with --help and a run without a
\* positional argument touch no file or directory, and finish with exit
\* code 1, the usage text alone on standard output and nothing on
\* standard error.
C4_UsageOnly ==
    (SupportedCommandLine /\ (HelpGiven \/ Positionals = <<>>))
        => /\ fs_log = <<>>
           /\ NothingMutated
           /\ pc \in {"ParsingArgs", "Returned", "Exited"}
           /\ (pc = "Exited"
                 => /\ exit_code = <<1>>
                    /\ stdout = <<Usage>>
                    /\ stderr = <<>>)

C4_Witness ==
    /\ pc = "Exited"
    /\ Given("--no-ninja")
    /\ Given("--no-sanitize")
    /\ Positionals = <<>>
    /\ stdout = <<Usage>>

----------------------------------------------------------------------------
\* C5 as stated: an unknown flag ends like a missing positional argument:
\* usage text, exit code 1, no error text.
C5_AsStated ==
    (pc = "Exited" /\ Given("--bogus"))
        => /\ exit_code = <<1>>
           /\ stdout = <<Usage>>
           /\ stderr = <<>>

\* C5 amended: an unknown flag ends the run with exit code 1 and the
\* option parser's message naming the flag on standard error; no usage
\* text is printed and no file or directory is touched.
C5_UnknownFlag ==
    Given("--bogus")
        => /\ fs_log = <<>>
           /\ NothingMutated
           /\ pc \in {"ParsingArgs", "Returned", "Exited"}
           /\ (pc = "Exited"
                 => /\ exit_code = <<1>>
                    /\ stdout = <<>>
                    /\ stderr = << <<"Unrecognized option", "--bogus">> >>)

C5_Witness ==
    /\ pc = "Exited"
    /\ Given("--bogus")
    /\ Given("proj")
    /\ stderr = << <<"Unrecognized option", "--bogus">> >>

----------------------------------------------------------------------------
IsEnvError(e) == e[3] = "err" \/ (e[1] = "exists" /\ e[3] = "true")

EnvErrors == {i \in DOMAIN fs_log : IsEnvError(fs_log[i])}

NoCleanup == \A i \in DOMAIN created : created[i] \in dirs

\* C6 as stated: every environment error, directory-creation failure
\* included, ends the run with exit code 1 and a single message on
\* standard error, nothing that was created being removed.
C6_AsStated ==
    (Finished /\ EnvErrors # {})
        => /\ exit_code = <<1>>
           /\ pc = "Exited"
           /\ Len(stderr) = 1
           /\ NoCleanup

\* C6 amended: a missing project directory, an unreadable build script and
\* an existing build directory each end the run with exit code 1 and one
\* message naming the path; a failure to create the build directory or a
\* configuration subdirectory makes the run panic instead (one panic
\* message, the panic exit status, not 1); an environment error is the
\* last filesystem call of the run and nothing created is ever removed.
C6_EnvironmentErrors ==
    /\ NoCleanup
    /\ \A i \in EnvErrors :
         LET e == fs_log[i] IN
         /\ i = Len(fs_log)
         /\ pc \in {"Returned", "Exited", "Panicked"}
         /\ (e[1] = "create_dir")
              <=> (pc = "Panicked" /\ exit_code = <<PanicExitCode>>
                   /\ stderr = << <<"panicked at create_dir", e[2]>> >>)
         /\ (e[1] # "create_dir")
              => /\ ret.retv = 1
                 /\ Len(ret.msg) = 1
                 /\ (pc = "Exited"
                       => /\ exit_code = <<1>>
                          /\ Len(stderr) = 1
                          /\ stderr[1] =
                               CASE e[1] = "metadata" ->
                                      <<"Error while trying to look up directory", e[2]>>
                                 [] e[1] = "read" ->
                                      <<"Failed to open CMakeLists.txt in",
                                        "/start/" \o Positionals[1]>>
                                 [] e[1] = "exists" ->
                                      <<"The build directory already exists. Delete it first.",
                                        "build-" \o Positionals[1]>>)

C6_Witness ==
    /\ pc = "Panicked"
    /\ Len(created) = 3
    /\ fs_log[Len(fs_log)] = <<"create_dir", "/start/build-proj/Clang-Debug", "err">>
    /\ "/start/build-proj/GCC-Release" \in dirs

----------------------------------------------------------------------------
InspectionFails ==
    /\ SupportedCommandLine
    /\ ~HelpGiven
    /\ Positionals # <<>>
    /\ \/ ("/start/" \o Positionals[1]) \notin dirs
       \/ cmakelists.kind # "text"

\* C7: when the project directory is missing or its CMakeLists.txt cannot
\* be opened or read, run() returns 1 with a message, the process exits
\* with code 1, and no directory is created and the working directory is
\* never changed.
C7_NoBuildDirAfterFailedInspection ==
    InspectionFails
        => /\ NothingMutated
           /\ pc \in {"ParsingArgs", "Inspecting", "Returned", "Exited"}
           /\ (pc \in {"Returned", "Exited"} => ret.retv = 1 /\ Len(ret.msg) = 1)
           /\ (pc = "Exited"
                 => /\ exit_code = <<1>>
                    /\ Len(stderr) = 1
                    /\ stderr[1][1] \in {"Error while trying to look up directory",
                                         "Failed to open CMakeLists.txt in"})

C7_Witness ==
    /\ pc = "Exited"
    /\ cmakelists.kind = "unreadable"
    /\ Positionals # <<>>
    /\ Positionals[1] = "proj"
    /\ stderr = << <<"Failed to open CMakeLists.txt in", "/start/proj">> >>
    /\ "/start/build-proj" \notin dirs

----------------------------------------------------------------------------
\* What each generator is passed apart from the build-system selector:
\* the project directory, the compiler flags, the build type and the
\* extra arguments.  Nothing here depends on --no-ninja.
FlagIndependentArgs ==
    << <<"/start/proj", "-DCMAKE_C_COMPILER=gcc", "-DCMAKE_CXX_COMPILER=g++",
         "-DCMAKE_BUILD_TYPE=Debug">>,
       <<"/start/proj", "-DCMAKE_C_COMPILER=gcc", "-DCMAKE_CXX_COMPILER=g++",
         "-DCMAKE_BUILD_TYPE=Release">>,
       <<"/start/proj", "-DCMAKE_C_COMPILER=clang", "-DCMAKE_CXX_COMPILER=clang++",
         "-DCMAKE_BUILD_TYPE=Debug">>,
       <<"/start/proj", "-DCMAKE_C_COMPILER=clang", "-DCMAKE_CXX_COMPILER=clang++",
         "-DCMAKE_BUILD_TYPE=Release">>,
       <<"/start/proj", "-DCMAKE_C_COMPILER=clang", "-DCMAKE_CXX_COMPILER=clang++",
         "-DCMAKE_BUILD_TYPE=Debug", "-DSANITIZE=address">>,
       <<"/start/proj", "-DCMAKE_C_COMPILER=clang", "-DCMAKE_CXX_COMPILER=clang++",
         "-DCMAKE_BUILD_TYPE=Debug", "-DSANITIZE=undefined">>,
       <<"/start/proj", "-DCMAKE_C_COMPILER=clang", "-DCMAKE_CXX_COMPILER=clang++",
         "-DCMAKE_BUILD_TYPE=Debug", "-DSANITIZE=thread">> >>

WithoutSecond(a) == <<a[1]>> \o SubSeq(a, 3, Len(a))

\* C8: the configurations invoked are a prefix of a list fixed by the
\* build script and --no-sanitize alone; the i-th generator is passed the
\* build-system selector in second position (Makefiles with --no-ninja,
\* Ninja without) and, around it, arguments fixed by i alone.  Two runs
\* that differ only in --no-ninja therefore invoke the same configurations
\* with argument lists that differ in the second position only.
C8_NinjaChangesSelectorOnly ==
    /\ Len(invoked) <= Len(ExpectedNames)
    /\ \A i \in DOMAIN invoked :
         /\ invoked[i].name = ExpectedNames[i]
         /\ invoked[i].args[2] = (IF Given("--no-ninja")
                                  THEN "-GCodeBlocks - Unix Makefiles"
                                  ELSE "-GCodeBlocks - Ninja")
         /\ WithoutSecond(invoked[i].args) = FlagIndependentArgs[i]
    /\ (pc \in {"RunningConfigs", "InGenerator"} => Names(configs) = ExpectedNames)

C8_Witness ==
    /\ pc = "Exited"
    /\ Given("--no-ninja")
    /\ Len(invoked) = 7
    /\ invoked[7].args = <<"/start/proj", "-GCodeBlocks - Unix Makefiles",
                           "-DCMAKE_C_COMPILER=clang", "-DCMAKE_CXX_COMPILER=clang++",
                           "-DCMAKE_BUILD_TYPE=Debug", "-DSANITIZE=thread">>

----------------------------------------------------------------------------
LastInvoked == invoked[Len(invoked)]

EnterDiscipline ==
    /\ (pc = "RunningConfigs" => cwd = BuildRoot)
    /\ \A i \in DOMAIN invoked :
         invoked[i].cwd = BuildRoot \o "/" \o ExpectedNames[i]
    /\ (pc = "InGenerator" => cwd = LastInvoked.cwd /\ parent_dir = BuildRoot)

\* C9 as stated: the working directory is back at the build-directory
\* root once the subprocess step of the last runner invocation is over,
\* also when the generator could not be started.
C9_AsStated ==
    /\ EnterDiscipline
    /\ (invoked # <<>> /\ pc # "InGenerator") => cwd = BuildRoot

\* C9 amended: every runner invocation starts at the build-directory root
\* and runs the generator in the configuration's own subdirectory; when
\* the generator exits, with zero or non-zero status, the working
\* directory is back at the root; when the generator cannot be started
\* the run panics and the working directory stays in the subdirectory.
C9_CursorDiscipline ==
    /\ EnterDiscipline
    /\ (invoked # <<>> /\ LastInvoked.status # <<>>) => cwd = BuildRoot
    /\ (invoked # <<>> /\ ~LastInvoked.started)
          => (pc = "Panicked" /\ cwd = LastInvoked.cwd)

C9_Witness ==
    /\ pc = "Returned"
    /\ Len(invoked) = 2
    /\ invoked[2].status = <<1>>
    /\ invoked[2].cwd = "/start/build-proj/GCC-Release"
    /\ cwd = "/start/build-proj"

----------------------------------------------------------------------------
AllZero(n) == \A j \in 1..n : invoked[j].status = <<0>>

\* C10: once the build directory is created, the directories created are
\* the build directory followed by the subdirectories <Compiler>-<Suffix>
\* of a prefix of the enumeration order, pairwise distinct and all still
\* in place; a subdirectory exists exactly for the configurations whose
\* generator was invoked, each of which had its progress line printed;
\* when run() returns, the prefix ends at the first configuration whose
\* generator exited non-zero, or is the whole enumeration when all exited
\* zero.
C10_SubdirectoriesArePrefix ==
    created # <<>>
        => /\ created[1] = BuildRoot
           /\ Len(created) - 1 <= Len(ExpectedNames)
           /\ \A i \in 1..(Len(created) - 1) :
                created[i + 1] = BuildRoot \o "/" \o ExpectedNames[i]
           /\ Cardinality(Range(created)) = Len(created)
           /\ NoCleanup
           /\ Len(invoked) = Len(created) - 1
           /\ \A i \in DOMAIN invoked : invoked[i].name = ExpectedNames[i]
           /\ Len(stdout) \in {Len(invoked), Len(invoked) + 1}
           /\ (Len(stdout) = Len(invoked) + 1
                 => pc = "Panicked" /\ fs_log[Len(fs_log)][1] = "create_dir")
           /\ \A i \in DOMAIN stdout :
                stdout[i] = <<"Creating configuration for", ExpectedNames[i]>>
           /\ (pc \in {"Returned", "Exited"}
                 => LET n == Len(invoked) IN
                    /\ n >= 1
                    /\ AllZero(n - 1)
                    /\ \/ invoked[n].status = <<1>>
                       \/ invoked[n].status = <<0>> /\ n = Len(ExpectedNames))

C10_Witness ==
    /\ pc = "Exited"
    /\ created = <<"/start/build-proj", "/start/build-proj/GCC-Debug",
                   "/start/build-proj/GCC-Release", "/start/build-proj/Clang-Debug">>
    /\ invoked[3].status = <<1>>
    /\ "/start/build-proj/Clang-Debug" \in dirs
    /\ Len(configs) = 4

====
